---------------------------- MODULE Spec2Model ----------------------------
(***************************************************************************)
(* Model of src/src/fully-connected.c: creation and setup of the QNNPACK   *)
(* 8-bit quantized fully connected operator.                               *)
(*                                                                         *)
(*   qnnp_create_fully_connected_nc_q8   ("Create")                        *)
(*   qnnp_setup_fully_connected_nc_q8    ("Bind")                          *)
(*                                                                         *)
(* qnnp_delete_operator, pack_q8gemm_w, qnnp_compute_conv_quantization_    *)
(* params and the global qnnp_params are declared in headers that are not  *)
(* part of the file; they are modelled from the design document.           *)
(***************************************************************************)
EXTENDS Integers, Sequences, FiniteSets, TLC

(***************************************************************************)
(* Bounds of the model.                                                    *)
(***************************************************************************)
\* input_channels and output_channels range over 1..MaxChannels
MaxChannels == 3
\* batch_size ranges over 0..MaxBatch
MaxBatch == 2
\* the concurrent callers enter the stores of Setup at most MaxSetups times in all
MaxSetups == 3
\* in the runs about the stride computation alone, the tile width and the
\* tile depth range over 1..MaxTile
MaxTile == 4

(***************************************************************************)
(* IEEE-754 binary32 (the C type float of the scale arguments).            *)
(* A float is a record [k, s, e]: k is its class, s its sign, and a finite *)
(* non-zero float has magnitude 2^e.  Only powers of two are modelled, so  *)
(* products and quotients are exact unless they leave the exponent range.  *)
(***************************************************************************)
\* largest exponent of a finite float (FLT_MAX < 2^128)
FloatMaxExp == 127
\* smallest exponent of a normal float (FLT_MIN = 2^-126)
FloatMinNormalExp == -126
\* smallest exponent of a subnormal float (2^-149)
FloatMinSubnormalExp == -149

FNaN == [k |-> "nan", s |-> 1, e |-> 0]
FInf(sign) == [k |-> "inf", s |-> sign, e |-> 0]
FZero(sign) == [k |-> "zero", s |-> sign, e |-> 0]
FPow2(sign, ex) == [k |-> "fin", s |-> sign, e |-> ex]

\* The float nearest to sign * 2^ex (round to nearest, ties to even):
\* overflow gives an infinity, underflow below 2^-149 gives zero.
FRound(sign, ex) ==
  IF ex > FloatMaxExp THEN FInf(sign)
  ELSE IF ex < FloatMinSubnormalExp THEN FZero(sign)
  ELSE FPow2(sign, ex)

\* a * b in float arithmetic
FMul(a, b) ==
  IF a.k = "nan" \/ b.k = "nan" THEN FNaN
  ELSE IF (a.k = "inf" /\ b.k = "zero") \/ (a.k = "zero" /\ b.k = "inf") THEN FNaN
  ELSE IF a.k = "inf" \/ b.k = "inf" THEN FInf(a.s * b.s)
  ELSE IF a.k = "zero" \/ b.k = "zero" THEN FZero(a.s * b.s)
  ELSE FRound(a.s * b.s, a.e + b.e)

\* a / b in float arithmetic
FDiv(a, b) ==
  IF a.k = "nan" \/ b.k = "nan" THEN FNaN
  ELSE IF (a.k = "inf" /\ b.k = "inf") \/ (a.k = "zero" /\ b.k = "zero") THEN FNaN
  ELSE IF a.k = "inf" \/ b.k = "zero" THEN FInf(a.s * b.s)
  ELSE IF a.k = "zero" \/ b.k = "inf" THEN FZero(a.s * b.s)
  ELSE FRound(a.s * b.s, a.e - b.e)

\* x <= 0.0f (false for NaN)
FLeZero(x) ==
  CASE x.k = "nan" -> FALSE
    [] x.k = "zero" -> TRUE
    [] OTHER -> x.s = -1

\* x >= 1.0f (false for NaN)
FGeOne(x) ==
  CASE x.k = "nan" -> FALSE
    [] x.k = "zero" -> FALSE
    [] x.k = "inf" -> x.s = 1
    [] OTHER -> x.s = 1 /\ x.e >= 0

\* isnormal(x) of <math.h>: neither zero, subnormal, infinite nor NaN
isnormal(x) == x.k = "fin" /\ x.e >= FloatMinNormalExp


(***************************************************************************)
(* Status codes, format tag and flag of <qnnpack.h> (symbolic).            *)
(***************************************************************************)
qnnp_status_success == "qnnp_status_success"
qnnp_status_uninitialized == "qnnp_status_uninitialized"
qnnp_status_invalid_parameter == "qnnp_status_invalid_parameter"
qnnp_status_unsupported_parameter == "qnnp_status_unsupported_parameter"
qnnp_status_out_of_memory == "qnnp_status_out_of_memory"

qnnp_format_quint8 == "qnnp_format_quint8"
QNNP_CONVOLUTION_FLAG_GEMM == "QNNP_CONVOLUTION_FLAG_GEMM"

(***************************************************************************)
(* The heap: addresses 1..MaxBlocks, NULL is 0.  A block is free, an       *)
(* operator record (struct qnnp_operator) or a byte buffer.                *)
(***************************************************************************)
\* number of heap blocks that can be live at once: two operators, each a
\* record and a packed buffer
MaxBlocks == 4

NULL == 0
Addr == 1..MaxBlocks
FreeBlock == [t |-> "free"]
\* content of a byte that malloc returned and nothing has written yet
Indeterminate == -1

VARIABLES
  qnnp_params,   \* the global context: [initialized, nr, kr]
  heap,          \* Addr -> block
  handle,        \* the caller's qnnp_operator_t variable (the out-parameter of Create)
  last           \* the most recent call: [call, status, args, fault, before]:
                 \* fault is the allocation that failed in it, before the
                 \* heap and the handle as they were when it was made; a
                 \* call of Create also tells whether it repacked the weights

VARIABLE
  callers        \* the concurrent callers of Setup: for each, [pc, op, b, overlapped]:
                 \* pc is 0 outside a call, else the number of the next
                 \* assignment of the call in progress, op and b are its operator
                 \* and arguments, overlapped tells whether another caller was
                 \* at work on the same operator since the call began, calls
                 \* counts the calls of the caller that passed the checks

vars == <<qnnp_params, heap, handle, last, callers>>

LiveBlocks(h) == {a \in Addr : h[a].t # "free"}

\* malloc/calloc: the lowest free address, or NULL when the allocation fails
\* (the allocator may fail at will: fails = TRUE) or no block is free.
AllocAddr(h, fails) ==
  IF fails \/ LiveBlocks(h) = Addr THEN NULL
  ELSE CHOOSE a \in Addr : h[a].t = "free" /\ \A b \in Addr : h[b].t = "free" => a <= b

\* free(p): free(NULL) does nothing
Free(h, p) == IF p = NULL THEN h ELSE [h EXCEPT ![p] = FreeBlock]

\* the record calloc(1, sizeof(struct qnnp_operator)) returns: every field zero
ZeroOperator ==
  [t |-> "op",
   packed_kernel |-> NULL,
   groups |-> 0,
   group_input_channels |-> 0,
   group_output_channels |-> 0,
   input_zero_point |-> 0,
   kernel_zero_point |-> 0,
   conv_quantization_params |->
     [scale |-> FZero(1), output_zero_point |-> 0, output_min |-> 0, output_max |-> 0],
   format |-> "0",
   flags |-> {},
   batch_size |-> 0,
   input_height |-> 0,
   input_width |-> 0,
   input |-> NULL,
   input_pixel_stride |-> 0,
   output_height |-> 0,
   output_width |-> 0,
   output |-> NULL,
   output_pixel_stride |-> 0]

\* qnnp_delete_operator(op): releases the packed weight buffer and the
\* operator record; a null handle is a no-op.
qnnp_delete_operator(h, op) ==
  IF op = NULL THEN h
  ELSE Free(Free(h, h[op].packed_kernel), op)

\* the fused requantization parameters stored in the operator
qnnp_compute_conv_quantization_params(izp, kzp, scale, ozp, omin, omax) ==
  [scale |-> scale, output_zero_point |-> ozp, output_min |-> omin, output_max |-> omax]

(***************************************************************************)
(* uint32_t arithmetic of the stride computation.  Every value of the      *)
(* model is below 2^31, so bit 31 of x is 0 and bits 0..30 decide x & -t.  *)
(***************************************************************************)
\* index of the highest bit that can be set in a value of the model
TopBit == 30

Bit(x, i) == (x \div (2^i)) % 2

\* bit i of the uint32_t value -t = 2^32 - t, for t >= 1: the complement of
\* bit i of t - 1
NegBit(t, i) == 1 - Bit(t - 1, i)

RECURSIVE AndNegFrom(_, _, _)
AndNegFrom(x, t, i) ==
  IF i > TopBit \/ x \div (2^i) = 0 THEN 0   \* no bit of x is set from i on
  ELSE Bit(x, i) * NegBit(t, i) * (2^i) + AndNegFrom(x, t, i + 1)

\* (x + (t - 1)) & -t
RoundUpStride(x, t) == AndNegFrom(x + (t - 1), t, 0)

\* a variant of the byte count without the bias: the count the log message
\* of the failing malloc prints
PackedSizeWeightsOnly(n_stride, k_stride) == n_stride * k_stride

\* a variant of the byte count that gives a bias the size of a weight
PackedSizeByteBias(n_stride, k_stride) == n_stride * (k_stride * 1 + 1)

\* the byte count passed to malloc and to memset
PackedSize(n_stride, k_stride) == n_stride * (k_stride * 1 + 4)

(***************************************************************************)
(* The packed weight buffer.  Output channels are grouped in tiles of nr   *)
(* rows.  A tile holds its weights, one block of nr rows by kr columns per *)
(* depth tile, and then the nr 32-bit bias values of its rows.             *)
(***************************************************************************)
\* ceil(x / t) * t
CeilToTile(x, t) == ((x + t - 1) \div t) * t

TileBytes(nr, k_stride) == nr * (k_stride + 4)

\* offset of the weight of output channel o (from 0) and input channel i (from 0)
WeightOffset(o, i, nr, kr, k_stride) ==
  (o \div nr) * TileBytes(nr, k_stride) + (i \div kr) * (nr * kr) + (o % nr) * kr + (i % kr)

\* offset of the first byte of the bias of output channel o (from 0)
BiasOffset(o, nr, k_stride) ==
  (o \div nr) * TileBytes(nr, k_stride) + nr * k_stride + 4 * (o % nr)

\* byte b (0 the lowest) of the int32_t value v, two's complement
Int32Byte(v, b) ==
  IF v >= 0 THEN (v \div (256^b)) % 256
  ELSE 255 - ((((-v) - 1) \div (256^b)) % 256)

\* the offsets pack_q8gemm_w writes: the weights and biases of the true channels
PackedWeightCells(nc, kc, nr, kr) ==
  {WeightOffset(o, i, nr, kr, CeilToTile(kc, kr)) : o \in 0..(nc - 1), i \in 0..(kc - 1)}

PackedBiasCells(nc, kc, nr, kr) ==
  {BiasOffset(o, nr, CeilToTile(kc, kr)) + b : o \in 0..(nc - 1), b \in 0..3}

\* pack_q8gemm_w(nc, kc, nr, np, kr, izp, kzp, k, b, packed_w): the buffer after
\* packing.  k is the row-major [nc][kc] weight matrix and b the bias vector
\* (tuples, from index 1).  Cells of the padding are left as they were.
pack_q8gemm_w(nc, kc, nr, np, kr, izp, kzp, k, b, packed_w) ==
  LET k_stride == CeilToTile(kc, kr)
      written == [j \in PackedWeightCells(nc, kc, nr, kr) \cup PackedBiasCells(nc, kc, nr, kr) |->
                    LET t == j \div TileBytes(nr, k_stride)
                        r == j % TileBytes(nr, k_stride)
                    IN IF r < nr * k_stride
                       THEN k[(t * nr + (r % (nr * kr)) \div kr) * kc
                              + ((r \div (nr * kr)) * kr + (r % kr)) + 1]
                       ELSE Int32Byte(b[t * nr + (r - nr * k_stride) \div 4 + 1],
                                      (r - nr * k_stride) % 4)]
  IN [j \in DOMAIN packed_w |-> IF j \in DOMAIN written THEN written[j] ELSE packed_w[j]]

\* memset(p, c, n) on the bytes of a buffer
memset(bytes, c, n) == [j \in DOMAIN bytes |-> IF j < n THEN c ELSE bytes[j]]

(***************************************************************************)
(* qnnp_create_fully_connected_nc_q8.  a is the record of the arguments,   *)
(* f names the allocation that fails ("none", "record" or "packed").  The  *)
(* result is [status, heap, written, out, failed, repacked]: the status     *)
(* returned, the heap at return, whether *fully_connected_out was written  *)
(* and with what, the allocation that failed during the call ("none" if    *)
(* none), and whether the call invoked pack_q8gemm_w.                      *)
(***************************************************************************)
\* a variant of the error: label that returns without deleting the operator
CreateErrorLeaks(h, fully_connected, status, failed) ==
  [status |-> status, heap |-> h, written |-> FALSE, out |-> NULL, failed |-> failed,
   repacked |-> FALSE]

\* the error: label: delete what was built and return the status
CreateError(h, fully_connected, status, failed) ==
  [status |-> status,
   heap |-> qnnp_delete_operator(h, fully_connected),
   written |-> FALSE,
   out |-> NULL,
   failed |-> failed,
   repacked |-> FALSE]

\* a variant of the scale check without the isnormal test
InvalidScaleSignOnly(scale) == FLeZero(scale)

\* scale <= 0.0f || !isnormal(scale)
InvalidScale(scale) == FLeZero(scale) \/ ~isnormal(scale)

\* a variant of the range check with > in place of >=
UnsupportedScaleStrict(requantization_scale) ==
  FGeOne(requantization_scale)
    /\ ~(requantization_scale.k = "fin" /\ requantization_scale.e = 0)

\* requantization_scale >= 1.0f
UnsupportedScale(requantization_scale) == FGeOne(requantization_scale)

\* a variant that fills the weight cells only: n_stride * k_stride bytes
FillPackedWeightsOnly(bytes, kernel_zero_point, n_stride, k_stride) ==
  memset(bytes, kernel_zero_point, n_stride * k_stride)

\* memset(packed_kernel, kernel_zero_point, n_stride * (k_stride + 4))
FillPacked(bytes, kernel_zero_point, n_stride, k_stride) ==
  memset(bytes, kernel_zero_point, PackedSize(n_stride, k_stride))

\* a variant that stores the two channel counts the other way round
PopulateOperatorChannelsExchanged(op, a, requantization_scale) ==
  [op EXCEPT
     !.groups = 1,
     !.group_input_channels = a.output_channels,
     !.group_output_channels = a.input_channels,
     !.input_zero_point = a.input_zero_point,
     !.kernel_zero_point = a.kernel_zero_point,
     !.conv_quantization_params =
        qnnp_compute_conv_quantization_params(
          a.input_zero_point, a.kernel_zero_point,
          requantization_scale, a.output_zero_point, a.output_min, a.output_max),
     !.format = qnnp_format_quint8,
     !.flags = {QNNP_CONVOLUTION_FLAG_GEMM}]

\* the fields Create stores in the record once the weights are packed
PopulateOperator(op, a, requantization_scale) ==
  [op EXCEPT
     !.groups = 1,
     !.group_input_channels = a.input_channels,
     !.group_output_channels = a.output_channels,
     !.input_zero_point = a.input_zero_point,
     !.kernel_zero_point = a.kernel_zero_point,
     !.conv_quantization_params =
        qnnp_compute_conv_quantization_params(
          a.input_zero_point, a.kernel_zero_point,
          requantization_scale, a.output_zero_point, a.output_min, a.output_max),
     !.format = qnnp_format_quint8,
     !.flags = {QNNP_CONVOLUTION_FLAG_GEMM}]

\* a variant that does not test what malloc returned for the packed buffer:
\* the fill and the packer are handed the null pointer
CreateAllocateUnchecked(a, f, requantization_scale) ==
  LET fully_connected == AllocAddr(heap, f = "record") IN
  IF fully_connected = NULL
  THEN CreateError(heap, fully_connected, qnnp_status_out_of_memory, "record")
  ELSE
    LET h1 == [heap EXCEPT ![fully_connected] = ZeroOperator]
        nr == qnnp_params.nr
        kr == qnnp_params.kr
        n_stride == RoundUpStride(a.output_channels, nr)
        k_stride == RoundUpStride(a.input_channels, kr)
        packed_kernel == AllocAddr(h1, f = "packed")
        h2 == [h1 EXCEPT ![fully_connected].packed_kernel = packed_kernel]
        fresh == [j \in 0..(PackedSize(n_stride, k_stride) - 1) |-> Indeterminate]
        filled == FillPacked(fresh, a.kernel_zero_point, n_stride, k_stride)
        packed == pack_q8gemm_w(
                    a.output_channels, a.input_channels,
                    nr, nr, kr,
                    a.input_zero_point, a.kernel_zero_point,
                    a.kernel, a.bias,
                    filled)
        h3 == IF packed_kernel = NULL THEN h2
              ELSE [h2 EXCEPT ![packed_kernel] = [t |-> "buf", bytes |-> packed]]
        h4 == [h3 EXCEPT ![fully_connected] = PopulateOperator(@, a, requantization_scale)]
    IN [status |-> qnnp_status_success,
        heap |-> h4,
        written |-> TRUE,
        out |-> fully_connected,
        failed |-> IF packed_kernel = NULL THEN "packed" ELSE "none",
        repacked |-> TRUE]

\* a variant that keeps the address of the packed buffer in a local variable
\* only: the record's packed_kernel stays NULL
CreateAllocateDetached(a, f, requantization_scale) ==
  LET fully_connected == AllocAddr(heap, f = "record") IN
  IF fully_connected = NULL
  THEN CreateError(heap, fully_connected, qnnp_status_out_of_memory, "record")
  ELSE
    LET h1 == [heap EXCEPT ![fully_connected] = ZeroOperator]
        nr == qnnp_params.nr
        kr == qnnp_params.kr
        n_stride == RoundUpStride(a.output_channels, nr)
        k_stride == RoundUpStride(a.input_channels, kr)
        packed_kernel == AllocAddr(h1, f = "packed")
    IN
    IF packed_kernel = NULL
    THEN CreateError(h1, fully_connected, qnnp_status_out_of_memory, "packed")
    ELSE
      LET fresh == [j \in 0..(PackedSize(n_stride, k_stride) - 1) |-> Indeterminate]
          filled == FillPacked(fresh, a.kernel_zero_point, n_stride, k_stride)
          packed == pack_q8gemm_w(
                      a.output_channels, a.input_channels,
                      nr, nr, kr,
                      a.input_zero_point, a.kernel_zero_point,
                      a.kernel, a.bias,
                      filled)
          h3 == [h1 EXCEPT ![packed_kernel] = [t |-> "buf", bytes |-> packed]]
          h4 == [h3 EXCEPT ![fully_connected] = PopulateOperator(@, a, requantization_scale)]
      IN [status |-> qnnp_status_success,
          heap |-> h4,
          written |-> TRUE,
          out |-> fully_connected,
          failed |-> "none",
          repacked |-> TRUE]

\* from status = qnnp_status_out_of_memory to the return
CreateAllocate(a, f, requantization_scale) ==
  LET fully_connected == AllocAddr(heap, f = "record") IN
  IF fully_connected = NULL
  THEN CreateError(heap, fully_connected, qnnp_status_out_of_memory, "record")
  ELSE
    LET h1 == [heap EXCEPT ![fully_connected] = ZeroOperator]
        nr == qnnp_params.nr
        kr == qnnp_params.kr
        n_stride == RoundUpStride(a.output_channels, nr)
        k_stride == RoundUpStride(a.input_channels, kr)
        packed_kernel == AllocAddr(h1, f = "packed")
        h2 == [h1 EXCEPT ![fully_connected].packed_kernel = packed_kernel]
    IN
    IF packed_kernel = NULL
    THEN CreateError(h2, fully_connected, qnnp_status_out_of_memory, "packed")
    ELSE
      LET fresh == [j \in 0..(PackedSize(n_stride, k_stride) - 1) |-> Indeterminate]
          filled == FillPacked(fresh, a.kernel_zero_point, n_stride, k_stride)
          packed == pack_q8gemm_w(
                      a.output_channels, a.input_channels,
                      nr, nr, kr,
                      a.input_zero_point, a.kernel_zero_point,
                      a.kernel, a.bias,
                      filled)
          h3 == [h2 EXCEPT ![packed_kernel] = [t |-> "buf", bytes |-> packed]]
          h4 == [h3 EXCEPT ![fully_connected] = PopulateOperator(@, a, requantization_scale)]
      IN [status |-> qnnp_status_success,
          heap |-> h4,
          written |-> TRUE,
          out |-> fully_connected,
          failed |-> "none",
          repacked |-> TRUE]

\* from status = qnnp_status_unsupported_parameter on
CreateRequantize(a, f) ==
  LET requantization_scale == FDiv(FMul(a.input_scale, a.kernel_scale), a.output_scale) IN
  IF UnsupportedScale(requantization_scale)
  THEN CreateError(heap, NULL, qnnp_status_unsupported_parameter, "none")
  ELSE CreateAllocate(a, f, requantization_scale)

\* a variant that tests the range of the requantization scale before the
\* three scales it is computed from
CreateValidateAfterRange(a, f) ==
  LET requantization_scale == FDiv(FMul(a.input_scale, a.kernel_scale), a.output_scale) IN
  IF UnsupportedScale(requantization_scale)
  THEN CreateError(heap, NULL, qnnp_status_unsupported_parameter, "none")
  ELSE IF InvalidScale(a.input_scale) \/ InvalidScale(a.kernel_scale)
            \/ InvalidScale(a.output_scale)
  THEN CreateError(heap, NULL, qnnp_status_invalid_parameter, "none")
  ELSE CreateAllocate(a, f, requantization_scale)

\* from status = qnnp_status_invalid_parameter on
CreateValidate(a, f) ==
  IF InvalidScale(a.input_scale)
  THEN CreateError(heap, NULL, qnnp_status_invalid_parameter, "none")
  ELSE IF InvalidScale(a.kernel_scale)
  THEN CreateError(heap, NULL, qnnp_status_invalid_parameter, "none")
  ELSE IF InvalidScale(a.output_scale)
  THEN CreateError(heap, NULL, qnnp_status_invalid_parameter, "none")
  ELSE CreateRequantize(a, f)

\* a variant of Create without the check of qnnp_params.initialized
CreateWithoutReadinessCheck(a, f) == CreateValidate(a, f)

qnnp_create_fully_connected_nc_q8(a, f) ==
  IF ~qnnp_params.initialized
  THEN CreateError(heap, NULL, qnnp_status_uninitialized, "none")
  ELSE CreateValidate(a, f)

(***************************************************************************)
(* qnnp_setup_fully_connected_nc_q8.  b is the record of the arguments.    *)
(* The result is [status, heap].                                           *)
(***************************************************************************)
\* a variant of the assignments that leaves out the last one
SetupFieldsWithoutOutputStride(op, b) ==
  [op EXCEPT
     !.batch_size = 1,
     !.input_height = b.batch_size,
     !.input_width = 1,
     !.input = b.input,
     !.input_pixel_stride = b.input_stride,
     !.output_height = b.batch_size,
     !.output_width = 1,
     !.output = b.output]

\* a variant of the assignments that stores the batch size in groups
SetupFieldsBatchInGroups(op, b) ==
  [op EXCEPT
     !.groups = b.batch_size,
     !.input_height = b.batch_size,
     !.input_width = 1,
     !.input = b.input,
     !.input_pixel_stride = b.input_stride,
     !.output_height = b.batch_size,
     !.output_width = 1,
     !.output = b.output,
     !.output_pixel_stride = b.output_stride]

\* a variant of the assignments with the two strides exchanged
SetupFieldsStridesExchanged(op, b) ==
  [op EXCEPT
     !.batch_size = 1,
     !.input_height = b.batch_size,
     !.input_width = 1,
     !.input = b.input,
     !.input_pixel_stride = b.output_stride,
     !.output_height = b.batch_size,
     !.output_width = 1,
     !.output = b.output,
     !.output_pixel_stride = b.input_stride]

\* the nine assignments to the record
SetupFields(op, b) ==
  [op EXCEPT
     !.batch_size = 1,
     !.input_height = b.batch_size,
     !.input_width = 1,
     !.input = b.input,
     !.input_pixel_stride = b.input_stride,
     !.output_height = b.batch_size,
     !.output_width = 1,
     !.output = b.output,
     !.output_pixel_stride = b.output_stride]

\* a variant without the batch size check
SetupWithoutBatchCheck(convolution, b) ==
  [status |-> qnnp_status_success,
   heap |-> [heap EXCEPT ![convolution] = SetupFields(@, b)]]

\* from the batch size check on
SetupCheckBatch(convolution, b) ==
  IF b.batch_size = 0
  THEN [status |-> qnnp_status_invalid_parameter, heap |-> heap]
  ELSE [status |-> qnnp_status_success,
        heap |-> [heap EXCEPT ![convolution] = SetupFields(@, b)]]

\* a variant that checks the batch size before the readiness of the context
SetupBatchCheckFirst(convolution, b) ==
  IF b.batch_size = 0
  THEN [status |-> qnnp_status_invalid_parameter, heap |-> heap]
  ELSE IF ~qnnp_params.initialized
  THEN [status |-> qnnp_status_uninitialized, heap |-> heap]
  ELSE [status |-> qnnp_status_success,
        heap |-> [heap EXCEPT ![convolution] = SetupFields(@, b)]]

qnnp_setup_fully_connected_nc_q8(convolution, b) ==
  IF ~qnnp_params.initialized
  THEN [status |-> qnnp_status_uninitialized, heap |-> heap]
  ELSE SetupCheckBatch(convolution, b)

\* a variant of the single assignments without the store to output_pixel_stride
SetupAssignmentWithoutOutputStride(op, b, i) ==
  CASE i = 1 -> [op EXCEPT !.batch_size = 1]
    [] i = 2 -> [op EXCEPT !.input_height = b.batch_size]
    [] i = 3 -> [op EXCEPT !.input_width = 1]
    [] i = 4 -> [op EXCEPT !.input = b.input]
    [] i = 5 -> [op EXCEPT !.input_pixel_stride = b.input_stride]
    [] i = 6 -> [op EXCEPT !.output_height = b.batch_size]
    [] i = 7 -> [op EXCEPT !.output_width = 1]
    [] i = 8 -> [op EXCEPT !.output = b.output]
    [] i = 9 -> op

\* the i-th of the nine assignments, in the order of the statements: the
\* record is written in place, one field at a time
SetupAssignment(op, b, i) ==
  CASE i = 1 -> [op EXCEPT !.batch_size = 1]
    [] i = 2 -> [op EXCEPT !.input_height = b.batch_size]
    [] i = 3 -> [op EXCEPT !.input_width = 1]
    [] i = 4 -> [op EXCEPT !.input = b.input]
    [] i = 5 -> [op EXCEPT !.input_pixel_stride = b.input_stride]
    [] i = 6 -> [op EXCEPT !.output_height = b.batch_size]
    [] i = 7 -> [op EXCEPT !.output_width = 1]
    [] i = 8 -> [op EXCEPT !.output = b.output]
    [] i = 9 -> [op EXCEPT !.output_pixel_stride = b.output_stride]

\* number of assignments of a successful Setup
SetupAssignments == 9

(***************************************************************************)
(* The arguments the calls are made with.                                  *)
(***************************************************************************)
\* scales Create accepts: 2^-100, 0.5, 1.0, 2^127
ValidScales == {FPow2(1, -100), FPow2(1, -1), FPow2(1, 0), FPow2(1, 127)}
\* scales Create rejects: NaN, +Inf, 0.0, -1.0 and the subnormal 2^-149
InvalidScales == {FNaN, FInf(1), FZero(1), FPow2(-1, 0), FPow2(1, -149)}
Scales == ValidScales \cup InvalidScales
\* the scales of the runs that are about shapes and binding: 0.5 and 1.0
UsualScales == {FPow2(1, -1), FPow2(1, 0)}

Channels == 1..MaxChannels
KernelZeroPoints == {0, 128}
InputZeroPoints == {3}
\* the tile geometries <<nr, kr>> the global context may hold
TileGeometries == {<<2, 2>>, <<4, 2>>}
AllocFaults == {"none", "record", "packed"}

\* a row-major weight matrix and a bias vector for the given shape
KernelData(oc, ic) == [j \in 1..(oc * ic) |-> (37 * j) % 256]
BiasData(oc) == [o \in 1..oc |-> IF o % 2 = 1 THEN 300 * o ELSE -o]

CreateArgsOf(ic, oc, izp, kzp, si, sk, so) ==
  [input_channels |-> ic,
   output_channels |-> oc,
   input_zero_point |-> izp,
   input_scale |-> si,
   kernel_zero_point |-> kzp,
   kernel_scale |-> sk,
   kernel |-> KernelData(oc, ic),
   bias |-> BiasData(oc),
   output_zero_point |-> 5,
   output_scale |-> so,
   output_min |-> 0,
   output_max |-> 255]

\* one shape, the usual scales: the runs that are about binding
CreateArgs ==
  {CreateArgsOf(3, 3, izp, 128, si, FPow2(1, -1), so) :
     izp \in InputZeroPoints, si \in UsualScales, so \in UsualScales}

\* every triple of scales, the smallest shape
ScaleArgs ==
  {CreateArgsOf(1, 1, 3, 128, si, sk, so) : si \in Scales, sk \in Scales, so \in Scales}

\* every shape and kernel zero point, two triples of scales
ShapeArgs ==
  {CreateArgsOf(ic, oc, izp, kzp, FPow2(1, -1), FPow2(1, -1), so) :
     ic \in Channels, oc \in Channels, izp \in InputZeroPoints,
     kzp \in KernelZeroPoints, so \in UsualScales}

\* the threads that call Setup and then run the operator
Callers == {"A", "B"}
IdleCaller == [pc |-> 0, op |-> NULL, b |-> [none |-> TRUE], overlapped |-> FALSE, calls |-> 0]

InputBuffers == {11, 12}
OutputBuffers == {21, 22}
Strides == {4, 8}

SetupArgs ==
  [batch_size : 0..MaxBatch,
   input : InputBuffers,
   input_stride : Strides,
   output : OutputBuffers,
   output_stride : Strides]

\* one failing and one successful call
FewSetupArgs ==
  [batch_size : {0, 1},
   input : {11},
   input_stride : {4},
   output : {21},
   output_stride : {4}]

NoArgs == [none |-> TRUE]

\* the record of a call made in the current state
Call(call, status, args, fault) ==
  [call |-> call, status |-> status, args |-> args, fault |-> fault,
   before |-> [heap |-> heap, handle |-> handle]]

(***************************************************************************)
(* The state machine.                                                      *)
(***************************************************************************)
Init ==
  /\ qnnp_params = [initialized |-> FALSE, nr |-> 0, kr |-> 0]
  /\ heap = [a \in Addr |-> FreeBlock]
  /\ handle = NULL
  /\ last = [call |-> "none", status |-> qnnp_status_success, args |-> NoArgs, fault |-> "none",
             before |-> [heap |-> [a \in Addr |-> FreeBlock], handle |-> NULL]]
  /\ callers = [c \in Callers |-> IdleCaller]

\* the global initialization makes the context ready and sets the tile geometry
Initialize(g) ==
  /\ ~qnnp_params.initialized
  /\ qnnp_params' = [initialized |-> TRUE, nr |-> g[1], kr |-> g[2]]
  /\ last' = Call("initialize", qnnp_status_success, NoArgs, "none")
  /\ UNCHANGED <<heap, handle, callers>>

\* the global context stops being ready
Deinitialize ==
  /\ qnnp_params.initialized
  /\ qnnp_params' = [initialized |-> FALSE, nr |-> 0, kr |-> 0]
  /\ last' = Call("deinitialize", qnnp_status_success, NoArgs, "none")
  /\ UNCHANGED <<heap, handle, callers>>

\* status = qnnp_create_fully_connected_nc_q8(..., &handle), called with a
\* handle variable that holds no operator
Create(a, f) ==
  /\ handle = NULL
  /\ LET r == qnnp_create_fully_connected_nc_q8(a, f) IN
       /\ heap' = r.heap
       /\ handle' = IF r.written THEN r.out ELSE handle
       /\ last' = [call |-> "create", status |-> r.status, args |-> a, fault |-> r.failed,
                   repacked |-> r.repacked,
                   before |-> [heap |-> heap, handle |-> handle]]
  /\ UNCHANGED <<qnnp_params, callers>>

\* status = qnnp_setup_fully_connected_nc_q8(handle, ...).  The call needs an
\* operator unless it returns before the first access to it.
Setup(b) ==
  /\ handle # NULL \/ ~qnnp_params.initialized \/ b.batch_size = 0
  /\ LET r == qnnp_setup_fully_connected_nc_q8(handle, b) IN
       /\ heap' = r.heap
       /\ last' = Call("setup", r.status, b, "none")
  /\ UNCHANGED <<qnnp_params, handle, callers>>

\* qnnp_delete_operator(handle); handle = NULL
Delete ==
  /\ heap' = qnnp_delete_operator(heap, handle)
  /\ handle' = NULL
  /\ last' = Call("delete", qnnp_status_success, NoArgs, "none")
  /\ UNCHANGED <<qnnp_params, callers>>

\* binding: one shape, one geometry, every argument of Setup
Next ==
  \/ Initialize(<<2, 2>>)
  \/ Deinitialize
  \/ \E a \in CreateArgs, f \in AllocFaults : Create(a, f)
  \/ \E b \in SetupArgs : Setup(b)
  \/ Delete

Spec == Init /\ [][Next]_vars

\* validation: Create called on every triple of scales
NextScales ==
  \/ Initialize(<<2, 2>>)
  \/ Deinitialize
  \/ \E a \in ScaleArgs, f \in AllocFaults : Create(a, f)
  \/ \E b \in FewSetupArgs : Setup(b)
  \/ Delete

SpecScales == Init /\ [][NextScales]_vars

\* packing: Create called on every shape under every tile geometry
NextShapes ==
  \/ \E g \in TileGeometries : Initialize(g)
  \/ Deinitialize
  \/ \E a \in ShapeArgs, f \in AllocFaults : Create(a, f)
  \/ \E b \in FewSetupArgs : Setup(b)
  \/ Delete

SpecShapes == Init /\ [][NextShapes]_vars

\* wide tiles: tile width 4 with tile depth 8, and tile width 8 with tile depth 1
WideGeometries == {<<4, 8>>, <<8, 1>>}

\* shapes with up to MaxChannels + 2 output channels: more than one tile of
\* width 4, with rows of padding in the last tile
TileArgs ==
  {CreateArgsOf(ic, oc, izp, kzp, FPow2(1, -1), FPow2(1, -1), FPow2(1, 0)) :
     ic \in Channels, oc \in 1..(MaxChannels + 2), izp \in InputZeroPoints,
     kzp \in KernelZeroPoints}

\* sizing: Create called under the wide tile geometries
NextTiles ==
  \/ \E g \in WideGeometries : Initialize(g)
  \/ Deinitialize
  \/ \E a \in TileArgs, f \in AllocFaults : Create(a, f)
  \/ \E b \in FewSetupArgs : Setup(b)
  \/ Delete

SpecTiles == Init /\ [][NextTiles]_vars

(***************************************************************************)
(* Vocabulary of the properties.                                           *)
(***************************************************************************)
Created == last.call = "create"
Bound == last.call = "setup"
\* neither the heap nor the handle differs from what the call found
NothingChanged == heap = last.before.heap /\ handle = last.before.handle

\* a scale outside the domain: zero, negative, NaN, infinite or subnormal
BadScale(x) ==
  \/ x.k \in {"nan", "inf", "zero"}
  \/ x.k = "fin" /\ (x.s = -1 \/ x.e < FloatMinNormalExp)
GoodScales(a) ==
  ~BadScale(a.input_scale) /\ ~BadScale(a.kernel_scale) /\ ~BadScale(a.output_scale)
\* for good scales, input.scale * kernel.scale / output.scale is exactly
\* 2^ExactFusedExp(a) as a real number
ExactFusedExp(a) == a.input_scale.e + a.kernel_scale.e - a.output_scale.e

\* the operator at address p is complete: its immutable fields are those
\* Create stores and its packed buffer is live with every byte written
Populated(h, p) ==
  /\ p \in Addr
  /\ h[p].t = "op"
  /\ h[p].groups = 1
  /\ h[p].format = qnnp_format_quint8
  /\ h[p].flags = {QNNP_CONVOLUTION_FLAG_GEMM}
  /\ h[p].packed_kernel \in Addr
  /\ h[h[p].packed_kernel].t = "buf"
  /\ \A j \in DOMAIN h[h[p].packed_kernel].bytes :
        h[h[p].packed_kernel].bytes[j] # Indeterminate

(***************************************************************************)
(* C1.  Whenever Create fails - context not initialized, invalid scale,    *)
(* fused scale >= 1.0, or either allocation failing - the caller's handle  *)
(* is as it was and the heap is as it was: every block the call allocated  *)
(* is free again.  The handle is written only when Create succeeds, and    *)
(* then it names a complete operator.                                      *)
(***************************************************************************)
C1_FailedCreateLeavesNothing ==
  Created =>
    IF last.status = qnnp_status_success
    THEN Populated(heap, handle)
    ELSE NothingChanged

\* Create failed on the packed buffer, after the record had been allocated
C1_Witness ==
  /\ Created
  /\ last.status = qnnp_status_out_of_memory
  /\ last.fault = "packed"
  /\ handle = NULL
  /\ LiveBlocks(heap) = {}

(***************************************************************************)
(* C2.  With the context initialized and no allocation failing, Create     *)
(* called with three positive normal scales whose exact quotient           *)
(* input.scale * kernel.scale / output.scale is below 1.0 succeeds and     *)
(* stores exactly that quotient as the fused requantization scale.  Stated *)
(* for the quotients that are normal floats themselves, so that no         *)
(* rounding of the result is involved.                                     *)
(***************************************************************************)
C2_FusedScaleIsExactQuotient ==
  (Created /\ qnnp_params.initialized /\ last.fault = "none"
     /\ GoodScales(last.args)
     /\ ExactFusedExp(last.args) < 0
     /\ ExactFusedExp(last.args) >= FloatMinNormalExp)
  => /\ last.status = qnnp_status_success
     /\ handle # NULL
     /\ heap[handle].conv_quantization_params.scale = FPow2(1, ExactFusedExp(last.args))

(***************************************************************************)
(* C3.  With the context initialized and three positive normal scales      *)
(* whose quotient input.scale * kernel.scale / output.scale is 1.0 or      *)
(* more, Create returns qnnp_status_unsupported_parameter, and the heap    *)
(* and the handle are as they were: nothing was allocated.                 *)
(***************************************************************************)
C3_FusedScaleAtLeastOneUnsupported ==
  (Created /\ qnnp_params.initialized
     /\ GoodScales(last.args) /\ ExactFusedExp(last.args) >= 0)
  => /\ last.status = qnnp_status_unsupported_parameter
     /\ last.fault = "none"
     /\ NothingChanged

\* the example of the design document: scales 1.0, 1.0 and 0.5, fused scale 2.0
C3_Witness ==
  /\ Created
  /\ qnnp_params.initialized
  /\ last.args.input_scale = FPow2(1, 0)
  /\ last.args.kernel_scale = FPow2(1, 0)
  /\ last.args.output_scale = FPow2(1, -1)
  /\ last.status = qnnp_status_unsupported_parameter
  /\ LiveBlocks(heap) = {}

(***************************************************************************)
(* C4.  With the context initialized, Create called with an input, kernel  *)
(* or output scale that is zero, negative, NaN, infinite or subnormal      *)
(* returns qnnp_status_invalid_parameter, whatever the other two scales.   *)
(***************************************************************************)
C4_BadScaleInvalidParameter ==
  (Created /\ qnnp_params.initialized
     /\ (BadScale(last.args.input_scale) \/ BadScale(last.args.kernel_scale)
           \/ BadScale(last.args.output_scale)))
  => last.status = qnnp_status_invalid_parameter

\* only the output scale is bad (NaN); the other two would give a fused scale of 0.5
C4_Witness ==
  /\ Created
  /\ qnnp_params.initialized
  /\ last.args.input_scale = FPow2(1, -1)
  /\ last.args.kernel_scale = FPow2(1, 0)
  /\ last.args.output_scale = FNaN
  /\ last.status = qnnp_status_invalid_parameter

(***************************************************************************)
(* C5.  With the context not initialized, Create returns                   *)
(* qnnp_status_uninitialized for every argument, no allocation is made or  *)
(* fails, and the heap and the handle are as they were.                    *)
(***************************************************************************)
C5_UninitializedCreate ==
  (Created /\ ~qnnp_params.initialized)
  => /\ last.status = qnnp_status_uninitialized
     /\ last.fault = "none"
     /\ NothingChanged

\* arguments Create accepts once the context is initialized
C5_Witness ==
  /\ Created
  /\ ~qnnp_params.initialized
  /\ GoodScales(last.args)
  /\ ExactFusedExp(last.args) = -1
  /\ last.status = qnnp_status_uninitialized
  /\ handle = NULL

(***************************************************************************)
(* Vocabulary of the properties about Bind.                                *)
(***************************************************************************)
\* the fields Setup assigns
TransientFields(op) ==
  [batch_size |-> op.batch_size,
   input_height |-> op.input_height,
   input_width |-> op.input_width,
   input |-> op.input,
   input_pixel_stride |-> op.input_pixel_stride,
   output_height |-> op.output_height,
   output_width |-> op.output_width,
   output |-> op.output,
   output_pixel_stride |-> op.output_pixel_stride]

\* the fields Create assigns
ImmutableFields(op) ==
  [packed_kernel |-> op.packed_kernel,
   groups |-> op.groups,
   group_input_channels |-> op.group_input_channels,
   group_output_channels |-> op.group_output_channels,
   input_zero_point |-> op.input_zero_point,
   kernel_zero_point |-> op.kernel_zero_point,
   conv_quantization_params |-> op.conv_quantization_params,
   format |-> op.format,
   flags |-> op.flags]

\* what a successful Setup with arguments b leaves in the transient fields
BoundTo(b) ==
  [batch_size |-> 1,
   input_height |-> b.batch_size,
   input_width |-> 1,
   input |-> b.input,
   input_pixel_stride |-> b.input_stride,
   output_height |-> b.batch_size,
   output_width |-> 1,
   output |-> b.output,
   output_pixel_stride |-> b.output_stride]

\* the operator the call was made on, as it was before the call
OperatorBefore == last.before.heap[last.before.handle]

(***************************************************************************)
(* C6.  A successful Bind leaves in every transient field the value of     *)
(* its own arguments, whatever an earlier Bind wrote there, and a failing  *)
(* Bind leaves every field as it was: after any sequence of Binds the      *)
(* transient fields are those of the most recent successful one.           *)
(***************************************************************************)
C6_BindOverwritesEveryTransientField ==
  (Bound /\ handle # NULL) =>
    IF last.status = qnnp_status_success
    THEN TransientFields(heap[handle]) = BoundTo(last.args)
    ELSE TransientFields(heap[handle]) = TransientFields(OperatorBefore)

\* a second successful Bind that differs from the first in batch size, both
\* buffers and both strides
C6_Witness ==
  /\ Bound
  /\ last.status = qnnp_status_success
  /\ handle # NULL
  /\ OperatorBefore.input_height \notin {0, last.args.batch_size}
  /\ OperatorBefore.input \notin {NULL, last.args.input}
  /\ OperatorBefore.output \notin {NULL, last.args.output}
  /\ OperatorBefore.input_pixel_stride \notin {0, last.args.input_stride}
  /\ OperatorBefore.output_pixel_stride \notin {0, last.args.output_stride}
  /\ TransientFields(heap[handle]) = BoundTo(last.args)

(***************************************************************************)
(* C7.  No Bind, successful or failing, changes the packed weight buffer   *)
(* (its address and its bytes), the fused requantization parameters, the   *)
(* input and kernel zero points, groups, the channel counts, the format or *)
(* the flags of the operator, nor which blocks of the heap are live.       *)
(***************************************************************************)
C7_BindKeepsImmutableFields ==
  (Bound /\ handle # NULL) =>
    /\ handle = last.before.handle
    /\ ImmutableFields(heap[handle]) = ImmutableFields(OperatorBefore)
    /\ heap[heap[handle].packed_kernel] = last.before.heap[OperatorBefore.packed_kernel]
    /\ Populated(heap, handle)

\* a successful Bind on an operator that an earlier Bind had bound
C7_Witness ==
  /\ Bound
  /\ last.status = qnnp_status_success
  /\ handle # NULL
  /\ OperatorBefore.input_height # 0
  /\ TransientFields(heap[handle]) # TransientFields(OperatorBefore)
  /\ heap[handle].conv_quantization_params.scale = FPow2(1, -2)

(***************************************************************************)
(* C8.  With the context initialized, Bind with batch size 0 returns       *)
(* qnnp_status_invalid_parameter and changes nothing: the heap, with the   *)
(* packed weights and the fields of an earlier Bind, is as it was.         *)
(***************************************************************************)
C8_BindBatchZeroInvalid ==
  (Bound /\ qnnp_params.initialized /\ last.args.batch_size = 0)
  => /\ last.status = qnnp_status_invalid_parameter
     /\ NothingChanged

\* the failing Bind follows a successful one, whose fields are still there
C8_Witness ==
  /\ Bound
  /\ qnnp_params.initialized
  /\ last.args.batch_size = 0
  /\ last.status = qnnp_status_invalid_parameter
  /\ handle # NULL
  /\ heap[handle].input_height = MaxBatch
  /\ heap[handle].input # last.args.input

(***************************************************************************)
(* C9.  With the context not initialized, Bind returns                     *)
(* qnnp_status_uninitialized and changes nothing, for every batch size,    *)
(* 0 included.                                                             *)
(***************************************************************************)
C9_UninitializedBind ==
  (Bound /\ ~qnnp_params.initialized)
  => /\ last.status = qnnp_status_uninitialized
     /\ NothingChanged

\* batch size 0 on an existing operator: the readiness check answers first
C9_Witness ==
  /\ Bound
  /\ ~qnnp_params.initialized
  /\ last.args.batch_size = 0
  /\ last.status = qnnp_status_uninitialized
  /\ handle # NULL
  /\ heap[handle].input_height # 0

(***************************************************************************)
(* Vocabulary of the properties about the packed buffer.  The cells are    *)
(* classified from their offset alone: the tile, then within the tile the  *)
(* depth block, the row and the column, or the bias slot of a row.         *)
(***************************************************************************)
\* the output channel (from 0) that the cell at offset j belongs to
CellRow(j, nr, kr, k_stride) ==
  LET t == j \div (nr * (k_stride + 4))
      r == j % (nr * (k_stride + 4))
  IN IF r < nr * k_stride
     THEN t * nr + ((r % (nr * kr)) \div kr)
     ELSE t * nr + ((r - nr * k_stride) \div 4)

\* the cell at offset j holds a weight (and not a byte of a bias)
IsWeightCell(j, nr, kr, k_stride) == j % (nr * (k_stride + 4)) < nr * k_stride

\* the input channel (from 0) of the weight cell at offset j
CellColumn(j, nr, kr, k_stride) ==
  LET r == j % (nr * (k_stride + 4))
  IN (r \div (nr * kr)) * kr + (r % kr)

\* weight cells of output channels beyond the true count
PaddedRowCells(oc, ic, nr, kr) ==
  {j \in 0..(CeilToTile(oc, nr) * (CeilToTile(ic, kr) + 4) - 1) :
     /\ IsWeightCell(j, nr, kr, CeilToTile(ic, kr))
     /\ CellRow(j, nr, kr, CeilToTile(ic, kr)) >= oc}

\* weight cells of input channels beyond the true count
PaddedColumnCells(oc, ic, nr, kr) ==
  {j \in 0..(CeilToTile(oc, nr) * (CeilToTile(ic, kr) + 4) - 1) :
     /\ IsWeightCell(j, nr, kr, CeilToTile(ic, kr))
     /\ CellColumn(j, nr, kr, CeilToTile(ic, kr)) >= ic}

\* bias bytes of output channels beyond the true count
PaddedBiasCells(oc, ic, nr, kr) ==
  {j \in 0..(CeilToTile(oc, nr) * (CeilToTile(ic, kr) + 4) - 1) :
     /\ ~IsWeightCell(j, nr, kr, CeilToTile(ic, kr))
     /\ CellRow(j, nr, kr, CeilToTile(ic, kr)) >= oc}

PaddingCells(oc, ic, nr, kr) ==
  PaddedRowCells(oc, ic, nr, kr) \cup PaddedColumnCells(oc, ic, nr, kr)
    \cup PaddedBiasCells(oc, ic, nr, kr)

\* the bytes of the packed buffer of the operator the handle names
PackedBytes == heap[heap[handle].packed_kernel].bytes

(***************************************************************************)
(* C10.  After a successful Create every padding cell of the packed        *)
(* buffer - weight cells of padded output rows, weight cells of padded     *)
(* input columns, bias bytes of padded output channels - is in the buffer  *)
(* and holds the kernel zero point.                                        *)
(***************************************************************************)
C10_PaddingIsKernelZeroPoint ==
  (Created /\ last.status = qnnp_status_success) =>
    \A j \in PaddingCells(last.args.output_channels, last.args.input_channels,
                          qnnp_params.nr, qnnp_params.kr) :
       j \in DOMAIN PackedBytes /\ PackedBytes[j] = last.args.kernel_zero_point

\* 3 by 3 weights under tile width 4 and tile depth 2 with kernel zero point
\* 128: padding of each of the three kinds, 128 in all of it, and the
\* padding is all of the buffer but the 9 weights and the 3 biases
C10_Witness ==
  /\ Created
  /\ last.status = qnnp_status_success
  /\ last.args.output_channels = 3
  /\ last.args.input_channels = 3
  /\ last.args.kernel_zero_point = 128
  /\ qnnp_params.nr = 4
  /\ qnnp_params.kr = 2
  /\ PaddedRowCells(3, 3, 4, 2) # {}
  /\ PaddedColumnCells(3, 3, 4, 2) # {}
  /\ PaddedBiasCells(3, 3, 4, 2) # {}
  /\ Cardinality(PaddingCells(3, 3, 4, 2)) = Cardinality(DOMAIN PackedBytes) - 3 * 3 - 4 * 3
  /\ \A j \in PaddingCells(3, 3, 4, 2) : PackedBytes[j] = 128
  /\ \E j \in DOMAIN PackedBytes : PackedBytes[j] # 128

(***************************************************************************)
(* C11.  The packed buffer of a successful Create has n * (k + 4) bytes,   *)
(* where n is output_channels rounded up to a multiple of the tile width   *)
(* and k is input_channels rounded up to a multiple of the tile depth, and *)
(* the fill before packing covered as many: no byte of the buffer is left  *)
(* as malloc returned it, and every byte the packer does not write holds   *)
(* the kernel zero point.                                                  *)
(***************************************************************************)
C11_PackedBufferSize ==
  (Created /\ last.status = qnnp_status_success) =>
    LET oc == last.args.output_channels
        ic == last.args.input_channels
        nr == qnnp_params.nr
        kr == qnnp_params.kr
        n == CeilToTile(oc, nr)
        k == CeilToTile(ic, kr)
    IN /\ DOMAIN PackedBytes = 0..(n * (k + 4) - 1)
       /\ \A j \in DOMAIN PackedBytes :
             /\ PackedBytes[j] # Indeterminate
             /\ j \notin PackedWeightCells(oc, ic, nr, kr) \cup PackedBiasCells(oc, ic, nr, kr)
                  => PackedBytes[j] = last.args.kernel_zero_point

\* the example of the design document: 5 output channels and 3 input
\* channels under tile width 4 and tile depth 8 give 8 rows by 8 columns of
\* weight cells in a buffer of 8 * (8 + 4) = 96 bytes
C11_Witness ==
  /\ Created
  /\ last.status = qnnp_status_success
  /\ last.args.output_channels = 5
  /\ last.args.input_channels = 3
  /\ qnnp_params.nr = 4
  /\ qnnp_params.kr = 8
  /\ Cardinality(DOMAIN PackedBytes) = 96
  /\ {CellRow(j, 4, 8, 8) : j \in {i \in DOMAIN PackedBytes : IsWeightCell(i, 4, 8, 8)}} = 0..7
  /\ {CellColumn(j, 4, 8, 8) : j \in {i \in DOMAIN PackedBytes : IsWeightCell(i, 4, 8, 8)}} = 0..7
  /\ Cardinality({i \in DOMAIN PackedBytes : IsWeightCell(i, 4, 8, 8)}) = 8 * 8
  /\ \A j \in DOMAIN PackedBytes : PackedBytes[j] # Indeterminate

(***************************************************************************)
(* C12.  Whenever the caller holds no handle - before the first Create,    *)
(* after a failed Create, after the Destroy of the handle a successful     *)
(* Create returned - no block of the heap is live.  Destroy of a null      *)
(* handle changes nothing, and neither does the Destroy that the error     *)
(* path of Create makes when Create fails before it allocates the record.  *)
(***************************************************************************)
C12_DestroyLeavesNothingLive ==
  /\ handle = NULL => LiveBlocks(heap) = {}
  /\ (last.call = "delete" /\ last.before.handle = NULL) => NothingChanged
  /\ (Created /\ last.status # qnnp_status_success /\ last.fault = "none") => NothingChanged

\* Destroy of a complete operator: its record and its packed buffer were
\* live before the call and no block is live after it
C12_Witness ==
  /\ last.call = "delete"
  /\ last.before.handle # NULL
  /\ Populated(last.before.heap, last.before.handle)
  /\ Cardinality(LiveBlocks(last.before.heap)) = 2
  /\ handle = NULL
  /\ LiveBlocks(heap) = {}

(***************************************************************************)
(* Concurrent callers.  Two threads call Setup and then run the operator   *)
(* (the executor, which is outside this file, reads the transient fields). *)
(* Setup takes no lock and writes the record in place, so a call in        *)
(* progress is a sequence of single stores that the stores of another      *)
(* thread can fall between.  The stores are taken in the order of the      *)
(* statements; a build that reorders them adds interleavings and removes   *)
(* none.  The run starts with the context ready and two operators created, *)
(* one per handle variable of the callers.                                 *)
(***************************************************************************)
\* the record and the buffer that a successful Create leaves
OperatorAfterCreate(packed_kernel, a, requantization_scale) ==
  PopulateOperator([ZeroOperator EXCEPT !.packed_kernel = packed_kernel], a, requantization_scale)

BufferAfterCreate(a, nr, kr) ==
  LET n_stride == RoundUpStride(a.output_channels, nr)
      k_stride == RoundUpStride(a.input_channels, kr)
      fresh == [j \in 0..(PackedSize(n_stride, k_stride) - 1) |-> Indeterminate]
      filled == FillPacked(fresh, a.kernel_zero_point, n_stride, k_stride)
  IN [t |-> "buf",
      bytes |-> pack_q8gemm_w(a.output_channels, a.input_channels, nr, nr, kr,
                              a.input_zero_point, a.kernel_zero_point,
                              a.kernel, a.bias, filled)]

\* the arguments the two operators were created with: fused scale 0.25
SharedCreateArgs == CreateArgsOf(1, 1, 3, 128, FPow2(1, -1), FPow2(1, -1), FPow2(1, 0))

\* the two operators: the allocator gave out the blocks in order
FirstOperator == 1
SecondOperator == 3
Operators == {FirstOperator, SecondOperator}

\* each thread binds its own buffers; batch size 0 is the call that fails
BindArgs(c) ==
  IF c = "A"
  THEN {[batch_size |-> n, input |-> 11, input_stride |-> 4, output |-> 21, output_stride |-> 4] :
          n \in {0, 1}}
  ELSE {[batch_size |-> n, input |-> 12, input_stride |-> 8, output |-> 22, output_stride |-> 8] :
          n \in {0, MaxBatch}}

InitBinds ==
  /\ qnnp_params = [initialized |-> TRUE, nr |-> 2, kr |-> 2]
  /\ heap = [x \in Addr |->
               IF x \in Operators
               THEN OperatorAfterCreate(x + 1, SharedCreateArgs, FPow2(1, -2))
               ELSE IF x - 1 \in Operators
               THEN BufferAfterCreate(SharedCreateArgs, 2, 2)
               ELSE FreeBlock]
  /\ handle = FirstOperator
  /\ last = [call |-> "none", status |-> qnnp_status_success, args |-> NoArgs, fault |-> "none",
             before |-> [heap |-> [a \in Addr |-> FreeBlock], handle |-> NULL]]
  /\ callers = [c \in Callers |-> IdleCaller]

\* the number of calls that have passed the checks so far
SetupsBegun == callers["A"].calls + callers["B"].calls

\* caller c enters qnnp_setup_fully_connected_nc_q8(o, b...): the two checks.
\* A call that passes them is in progress, about to make its first store.
SetupBegin(c, o, b) ==
  /\ callers[c].pc = 0
  /\ SetupsBegun < MaxSetups
  /\ IF ~qnnp_params.initialized
     THEN /\ last' = Call("setup", qnnp_status_uninitialized, b, "none")
          /\ UNCHANGED callers
     ELSE IF b.batch_size = 0
     THEN /\ last' = Call("setup", qnnp_status_invalid_parameter, b, "none")
          /\ UNCHANGED callers
     ELSE /\ callers' =
               [d \in Callers |->
                  IF d = c
                  THEN [pc |-> 1, op |-> o, b |-> b, calls |-> callers[c].calls + 1,
                        overlapped |-> \E e \in Callers \ {c} :
                                          callers[e].pc # 0 /\ callers[e].op = o]
                  ELSE IF callers[d].pc # 0 /\ callers[d].op = o
                  THEN [callers[d] EXCEPT !.overlapped = TRUE]
                  ELSE callers[d]]
          /\ UNCHANGED last
  /\ UNCHANGED <<qnnp_params, heap, handle>>

\* the next store of the call of caller c
SetupStep(c) ==
  /\ callers[c].pc \in 1..SetupAssignments
  /\ heap' = [heap EXCEPT ![callers[c].op] = SetupAssignment(@, callers[c].b, callers[c].pc)]
  /\ callers' = [callers EXCEPT ![c].pc = @ + 1]
  /\ UNCHANGED <<qnnp_params, handle, last>>

\* the call of caller c has returned success and c runs the operator: the
\* executor reads the transient fields
Execute(c) ==
  /\ callers[c].pc = SetupAssignments + 1
  /\ last' = Call("execute", qnnp_status_success,
                  [caller |-> c, op |-> callers[c].op, b |-> callers[c].b,
                   overlapped |-> callers[c].overlapped,
                   seen |-> TransientFields(heap[callers[c].op])],
                  "none")
  /\ callers' = [callers EXCEPT ![c] = [IdleCaller EXCEPT !.calls = callers[c].calls]]
  /\ UNCHANGED <<qnnp_params, heap, handle>>

NextBinds ==
  \/ \E c \in Callers, o \in Operators : \E b \in BindArgs(c) : SetupBegin(c, o, b)
  \/ \E c \in Callers : SetupStep(c)
  \/ \E c \in Callers : Execute(c)

SpecBinds == InitBinds /\ [][NextBinds]_vars

(***************************************************************************)
(* C13.  Setup is not atomic.  When no other caller was at work on the     *)
(* same operator between the entry of a Setup and the run that follows it  *)
(* - the callers take turns on the operator, or each has its own - the run *)
(* reads in every transient field the value of that Setup.  When two calls *)
(* on one operator overlap, their stores interleave and the record can be  *)
(* left with fields of both (the state of the witness).                    *)
(***************************************************************************)
C13_SerializedBindIsSeenWhole ==
  (last.call = "execute" /\ ~last.args.overlapped)
  => last.args.seen = BoundTo(last.args.b)

\* caller A has run the second operator, which it had to itself, and read
\* its own values in every field, while the first operator is left by two
\* overlapping calls with the input of A (buffer 11, one row) and the output
\* of B (buffer 22, MaxBatch rows)
C13_Witness ==
  /\ last.call = "execute"
  /\ ~last.args.overlapped
  /\ last.args.caller = "A"
  /\ last.args.op = SecondOperator
  /\ last.args.seen = BoundTo(last.args.b)
  /\ \A c \in Callers : callers[c].pc = 0
  /\ heap[FirstOperator].input = 11
  /\ heap[FirstOperator].input_height = 1
  /\ heap[FirstOperator].output = 22
  /\ heap[FirstOperator].output_height = MaxBatch
  /\ \A b \in BindArgs("A") \cup BindArgs("B") :
        TransientFields(heap[FirstOperator]) # BoundTo(b)

(***************************************************************************)
(* C14.  The status Create returns is that of the first check that fails,  *)
(* in the order: context initialized, the three scales valid, fused scale  *)
(* below 1.0, the two allocations.  A Create that fails a check before the *)
(* allocations has had no allocation fail and leaves the heap and the      *)
(* handle as they were, also when the allocator would have refused.        *)
(***************************************************************************)
C14_FirstFailingCheckDecides ==
  Created =>
    IF ~qnnp_params.initialized
    THEN last.status = qnnp_status_uninitialized /\ last.fault = "none" /\ NothingChanged
    ELSE IF ~GoodScales(last.args)
    THEN last.status = qnnp_status_invalid_parameter /\ last.fault = "none" /\ NothingChanged
    ELSE IF ExactFusedExp(last.args) >= 0
    THEN last.status = qnnp_status_unsupported_parameter /\ last.fault = "none" /\ NothingChanged
    ELSE IF last.fault # "none"
    THEN last.status = qnnp_status_out_of_memory
    ELSE last.status = qnnp_status_success

\* an infinite input scale with kernel and output scale 1.0: the scale check
\* answers, though the range check on the quotient would fail as well
C14_Witness ==
  /\ Created
  /\ qnnp_params.initialized
  /\ last.args.input_scale = FInf(1)
  /\ last.args.kernel_scale = FPow2(1, 0)
  /\ last.args.output_scale = FPow2(1, 0)
  /\ FGeOne(FDiv(FMul(last.args.input_scale, last.args.kernel_scale), last.args.output_scale))
  /\ last.status = qnnp_status_invalid_parameter
  /\ last.fault = "none"
  /\ LiveBlocks(heap) = {}

(***************************************************************************)
(* The stride computation alone: the statements of Create from the read of *)
(* nr and kr to k_stride, applied to every channel count under every tile  *)
(* width and depth from 1 to MaxTile.  The global context is outside this  *)
(* file; the design document asks of nr and kr only that they are          *)
(* positive.                                                               *)
(***************************************************************************)
TileSizes == 1..MaxTile

\* nr = qnnp_params.q8conv.nr; kr = qnnp_params.q8conv.kr;
\* n_stride = (output_channels + (nr - 1)) & -nr;
\* k_stride = (input_channels + (kr - 1)) & -kr;
ComputeStrides(output_channels, input_channels, nr, kr) ==
  /\ last' = Call("strides", qnnp_status_success,
                  [output_channels |-> output_channels,
                   input_channels |-> input_channels,
                   nr |-> nr,
                   kr |-> kr,
                   n_stride |-> RoundUpStride(output_channels, nr),
                   k_stride |-> RoundUpStride(input_channels, kr)],
                  "none")
  /\ UNCHANGED <<qnnp_params, heap, handle, callers>>

NextStrides ==
  \E oc \in Channels, ic \in Channels, nr \in TileSizes, kr \in TileSizes :
    ComputeStrides(oc, ic, nr, kr)

SpecStrides == Init /\ [][NextStrides]_vars

\* s is x rounded up to a multiple of t: a multiple of t, at least x, and
\* less than one tile above it
RoundedUpToTile(s, x, t) ==
  /\ s % t = 0
  /\ s >= x
  /\ s - x < t
  /\ s = CeilToTile(x, t)

(***************************************************************************)
(* C15.  For every positive tile width nr and tile depth kr and all        *)
(* channel counts, n_stride is output_channels rounded up to a multiple of *)
(* nr and k_stride is input_channels rounded up to a multiple of kr.       *)
(***************************************************************************)
C15_StridesRoundUpToTile ==
  last.call = "strides" =>
    /\ RoundedUpToTile(last.args.n_stride, last.args.output_channels, last.args.nr)
    /\ RoundedUpToTile(last.args.k_stride, last.args.input_channels, last.args.kr)

(***************************************************************************)
(* Vocabulary of the properties about the bias slots.  The buffer holds    *)
(* the padded weight cells, one byte each, and 32-bit bias slots.          *)
(***************************************************************************)
\* rows and columns of the padded weight matrix of the operator just created
PaddedRows == CeilToTile(last.args.output_channels, qnnp_params.nr)
PaddedColumns == CeilToTile(last.args.input_channels, qnnp_params.kr)
\* the output-channel tiles of the operator just created
OutputTiles == PaddedRows \div qnnp_params.nr
\* the bytes of the buffer beyond the padded weight cells
BiasBytes == Cardinality(DOMAIN PackedBytes) - PaddedRows * PaddedColumns

(***************************************************************************)
(* C16 (as amended).  Beside the padded weight cells, the packed buffer of *)
(* a successful Create holds one 32-bit bias slot per padded output row,   *)
(* that is tile width slots per output-channel tile: enough for the bias   *)
(* of every output channel.                                                *)
(***************************************************************************)
C16_OneBiasSlotPerPaddedRow ==
  (Created /\ last.status = qnnp_status_success) =>
    /\ BiasBytes = 4 * PaddedRows
    /\ BiasBytes = 4 * qnnp_params.nr * OutputTiles
    /\ BiasBytes >= 4 * last.args.output_channels

(***************************************************************************)
(* C16 (as stated).  Beside the padded weight cells, the packed buffer of  *)
(* a successful Create holds exactly one 32-bit bias slot per              *)
(* output-channel tile.                                                    *)
(***************************************************************************)
C16_OneBiasSlotPerTile ==
  (Created /\ last.status = qnnp_status_success) =>
    BiasBytes = 4 * OutputTiles

\* 5 output channels under tile width 4: 2 tiles, 8 padded rows, and 32
\* bytes of bias slots: 8 slots, not 2
C16_Witness ==
  /\ Created
  /\ last.status = qnnp_status_success
  /\ last.args.output_channels = 5
  /\ qnnp_params.nr = 4
  /\ OutputTiles = 2
  /\ PaddedRows = 8
  /\ BiasBytes = 32
  /\ \A o \in 0..4, b \in 0..3 :
        PackedBytes[BiasOffset(o, 4, PaddedColumns) + b] = Int32Byte(last.args.bias[o + 1], b)

(***************************************************************************)
(* C17.  With the context initialized and three valid scales of fused      *)
(* scale below 1.0, a Create in which the allocation of the record or of   *)
(* the packed buffer fails returns qnnp_status_out_of_memory.  It has not  *)
(* invoked the packer, and at its return the heap and the handle are as it *)
(* found them: the record it had allocated is free again.                  *)
(***************************************************************************)
C17_AllocationFailureOutOfMemory ==
  (Created /\ qnnp_params.initialized
     /\ GoodScales(last.args) /\ ExactFusedExp(last.args) < 0
     /\ last.fault \in {"record", "packed"})
  => /\ last.status = qnnp_status_out_of_memory
     /\ ~last.repacked
     /\ NothingChanged
     /\ LiveBlocks(heap) = {}

\* the second case: the record was allocated and the packed buffer was not
C17_Witness ==
  /\ Created
  /\ qnnp_params.initialized
  /\ GoodScales(last.args)
  /\ ExactFusedExp(last.args) = -1
  /\ last.fault = "packed"
  /\ last.status = qnnp_status_out_of_memory
  /\ ~last.repacked
  /\ heap = [x \in Addr |-> FreeBlock]

(***************************************************************************)
(* C18.  After a successful Bind with batch size B > 0, input I with       *)
(* stride SI and output O with stride SO, the operator describes an image  *)
(* of width 1: input_height = output_height = B, input_width =             *)
(* output_width = 1, batch_size = 1, input = I with input_pixel_stride =   *)
(* SI, output = O with output_pixel_stride = SO.                           *)
(***************************************************************************)
C18_BindMapsBatchToRows ==
  (Bound /\ last.status = qnnp_status_success /\ handle # NULL) =>
    /\ last.args.batch_size > 0
    /\ heap[handle].input_height = last.args.batch_size
    /\ heap[handle].output_height = last.args.batch_size
    /\ heap[handle].input_width = 1
    /\ heap[handle].output_width = 1
    /\ heap[handle].batch_size = 1
    /\ heap[handle].input = last.args.input
    /\ heap[handle].input_pixel_stride = last.args.input_stride
    /\ heap[handle].output = last.args.output
    /\ heap[handle].output_pixel_stride = last.args.output_stride

\* the first Bind of an operator, with MaxBatch rows and two different strides
C18_Witness ==
  /\ Bound
  /\ last.status = qnnp_status_success
  /\ handle # NULL
  /\ TransientFields(OperatorBefore) = TransientFields(ZeroOperator)
  /\ last.args.batch_size = MaxBatch
  /\ last.args.input_stride = 4
  /\ last.args.output_stride = 8
  /\ heap[handle].input_height = MaxBatch
  /\ heap[handle].output_height = MaxBatch
  /\ heap[handle].batch_size = 1
  /\ heap[handle].input_pixel_stride = 4
  /\ heap[handle].output_pixel_stride = 8

(***************************************************************************)
(* Vocabulary of the properties about the shape of the operator.           *)
(***************************************************************************)
\* the logical shape, the zero points, the format and the flags of a record
ShapeFields(op) ==
  [groups |-> op.groups,
   group_input_channels |-> op.group_input_channels,
   group_output_channels |-> op.group_output_channels,
   input_zero_point |-> op.input_zero_point,
   kernel_zero_point |-> op.kernel_zero_point,
   format |-> op.format,
   flags |-> op.flags]

\* what Create called with arguments a is to leave in those fields
ShapeOf(a) ==
  [groups |-> 1,
   group_input_channels |-> a.input_channels,
   group_output_channels |-> a.output_channels,
   input_zero_point |-> a.input_zero_point,
   kernel_zero_point |-> a.kernel_zero_point,
   format |-> qnnp_format_quint8,
   flags |-> {QNNP_CONVOLUTION_FLAG_GEMM}]

(***************************************************************************)
(* C19.  The operator a successful Create returns has groups = 1, the      *)
(* channel counts and the input and kernel zero points of the arguments,   *)
(* the format qnnp_format_quint8 and the flag QNNP_CONVOLUTION_FLAG_GEMM;  *)
(* every later call that leaves the handle in place leaves these fields as *)
(* it found them, so they hold in every state until Destroy.               *)
(***************************************************************************)
C19_CreatedShapePersists ==
  /\ (Created /\ last.status = qnnp_status_success) =>
        handle # NULL /\ ShapeFields(heap[handle]) = ShapeOf(last.args)
  /\ (handle # NULL /\ ~Created) =>
        /\ last.before.handle = handle
        /\ ShapeFields(heap[handle]) = ShapeFields(last.before.heap[handle])
  /\ handle # NULL =>
        /\ heap[handle].groups = 1
        /\ heap[handle].format = qnnp_format_quint8
        /\ QNNP_CONVOLUTION_FLAG_GEMM \in heap[handle].flags
        /\ heap[handle].group_input_channels \in Channels
        /\ heap[handle].group_output_channels \in Channels
        /\ heap[handle].kernel_zero_point \in KernelZeroPoints

\* two calls after the Create of an operator with 1 input and MaxChannels
\* output channels and kernel zero point 0: it has been bound, and the
\* context has since stopped being ready
C19_Witness ==
  /\ last.call = "deinitialize"
  /\ handle # NULL
  /\ heap[handle].input_height = 1
  /\ heap[handle].groups = 1
  /\ heap[handle].group_input_channels = 1
  /\ heap[handle].group_output_channels = MaxChannels
  /\ heap[handle].input_zero_point = 3
  /\ heap[handle].kernel_zero_point = 0
  /\ heap[handle].format = qnnp_format_quint8
  /\ heap[handle].flags = {QNNP_CONVOLUTION_FLAG_GEMM}

============================================================================
